---- MODULE Spec2Model ----
(***************************************************************************)
(* System Monitor: the winit event-loop closure of src/window.rs (refresh  *)
(* cadence, surface lifecycle, shutdown) and the process-table pipeline of *)
(* src/application.rs (filter, stable sort, cell formatting).              *)
(*                                                                         *)
(* Text is a sequence of code points (ASCII), so that to_lowercase, the    *)
(* substring test and the byte-wise String ordering are computed, not      *)
(* assumed.  Time is counted in tenths of a second.                        *)
(***************************************************************************)
EXTENDS Integers, Sequences, FiniteSets, TLC

(***************************************************************************)
(* Bounds of the model.                                                    *)
(***************************************************************************)
MaxTime == 11          \* the clock runs from 0 to MaxTime tenths of a second
MaxWidth == 2          \* widths delivered by the window system: 0..MaxWidth
MaxProcs == 2          \* most processes in a snapshot of the table runs
MaxQueryLen == 2       \* longest search text of the table runs

(***************************************************************************)
(* Program constants.                                                      *)
(***************************************************************************)
OneSecond == 10        \* Duration::from_secs(1), in tenths of a second

(***************************************************************************)
(* Text helpers: std::string::String as a sequence of ASCII code points.   *)
(***************************************************************************)
\* char::to_lowercase on ASCII: 'A'..'Z' (65..90) map to 'a'..'z'.
to_lowercase_char(c) == IF c >= 65 /\ c <= 90 THEN c + 32 ELSE c

\* str::to_lowercase
to_lowercase(s) == [i \in 1..Len(s) |-> to_lowercase_char(s[i])]

\* str::contains(&str): pat occurs in s as a contiguous substring.
contains(s, pat) ==
    \E i \in 0..(Len(s) - Len(pat)) : SubSeq(s, i + 1, i + Len(pat)) = pat

\* Display of an unsigned integer: its decimal digits, no sign, no padding.
RECURSIVE to_string(_)
to_string(n) ==
    IF n < 10 THEN <<48 + n>>
    ELSE Append(to_string(n \div 10), 48 + (n % 10))

\* format!("{:.1}", n) for an integer n: std::fmt ignores the precision of
\* integral types, so the text is the plain decimal text of n.
fmt_precision1_u64(n) == to_string(n)

\* Ord for String: lexicographic on the bytes; a proper prefix is Less.
RECURSIVE cmp(_, _)
cmp(a, b) ==
    IF a = <<>> /\ b = <<>> THEN "Equal"
    ELSE IF a = <<>> THEN "Less"
    ELSE IF b = <<>> THEN "Greater"
    ELSE IF Head(a) < Head(b) THEN "Less"
    ELSE IF Head(a) > Head(b) THEN "Greater"
    ELSE cmp(Tail(a), Tail(b))

(***************************************************************************)
(* Process table pipeline (Application::processes_view, the table body).   *)
(* A snapshot is the sequence of process records in the iteration order of *)
(* system.processes(); PIDs are the keys of that map, hence distinct.      *)
(***************************************************************************)
\* filter with the query compared as typed: its case is not folded.
filter_query_case(p, query) ==
    \/ contains(to_string(p.pid), query)
    \/ contains(to_lowercase(p.name), query)

\* The filter closure of processes_view.
filter(p, query) ==
    \/ contains(to_string(p.pid), query)
    \/ contains(to_lowercase(p.name), to_lowercase(query))

\* The comparator closure given to sort_by.
compare(a, b) == cmp(to_lowercase(a.name), to_lowercase(b.name))

\* insert_sorted placing x before the elements Equal to it: an unstable
\* sort.
RECURSIVE insert_sorted_unstable(_, _)
insert_sorted_unstable(s, x) ==
    IF s = <<>> THEN <<x>>
    ELSE IF compare(Head(s), x) # "Less" THEN <<x>> \o s
    ELSE <<Head(s)>> \o insert_sorted_unstable(Tail(s), x)

\* One step of a stable sort: x goes behind every element that is not
\* Greater than it.
RECURSIVE insert_sorted(_, _)
insert_sorted(s, x) ==
    IF s = <<>> THEN <<x>>
    ELSE IF compare(Head(s), x) = "Greater" THEN <<x>> \o s
    ELSE <<Head(s)>> \o insert_sorted(Tail(s), x)

\* slice::sort_by (stable) with the comparator above.
RECURSIVE sort_by(_)
sort_by(s) ==
    IF s = <<>> THEN <<>>
    ELSE insert_sorted(sort_by(SubSeq(s, 1, Len(s) - 1)), s[Len(s)])

\* The cells of one body.row (the CPU cell, an f32, is not modelled).
row(p) ==
    [ name |-> p.name,
      pid  |-> to_string(p.pid),
      mem  |-> fmt_precision1_u64(p.memory \div 1000000) \o <<32, 77, 66>>,
      disk |-> to_string(p.written_bytes) \o <<47, 115>> ]

\* The rows the body closure adds, in order.
processes_view(processes, query) ==
    LET kept   == SelectSeq(processes, LAMBDA p : filter(p, query))
        sorted == sort_by(kept)
    IN  [i \in 1..Len(sorted) |-> row(sorted[i])]

(***************************************************************************)
(* Input domains.                                                          *)
(***************************************************************************)
\* Process records the snapshot source can report (pid, name, memory in
\* bytes, written bytes).  Names: "bash", "Chrome", "init", "Init", "BASH",
\* "h99".
ProcessPool ==
    { [pid |-> 10, name |-> <<98, 97, 115, 104>>,
       memory |-> 5000000, written_bytes |-> 0],
      [pid |-> 20, name |-> <<67, 104, 114, 111, 109, 101>>,
       memory |-> 800000000, written_bytes |-> 1200],
      [pid |-> 1, name |-> <<105, 110, 105, 116>>,
       memory |-> 999999, written_bytes |-> 7],
      [pid |-> 21, name |-> <<73, 110, 105, 116>>,
       memory |-> 1999999, written_bytes |-> 0],
      [pid |-> 19, name |-> <<66, 65, 83, 72>>,
       memory |-> 123456789, written_bytes |-> 99],
      [pid |-> 5, name |-> <<104, 57, 57>>,
       memory |-> 0, written_bytes |-> 10] }

\* Sequences of at most n pool records with pairwise distinct PIDs.
Snapshots(n) ==
    UNION { { s \in [1..k -> ProcessPool] :
                \A i, j \in 1..k : i # j => s[i].pid # s[j].pid } : k \in 0..n }

\* Characters the user types into the search box: c C h i 1 9.
QueryChars == {99, 67, 104, 105, 49, 57}

\* Search texts of at most n characters.
Queries(n) == UNION { [1..k -> QueryChars] : k \in 0..n }

\* Snapshots refresh_all() yields in the event-loop runs: {bash, Chrome}
\* and {Init, init}.
LoopSnapshots ==
    { s \in Snapshots(2) :
        \/ Len(s) = 2 /\ s[1].pid = 10 /\ s[2].pid = 20
        \/ Len(s) = 2 /\ s[1].pid = 21 /\ s[2].pid = 1 }

\* Search texts typed in the event-loop runs: "" and "ch".
LoopQueries == { <<>>, <<99, 104>> }

Size(w, h) == [width |-> w, height |-> h]

\* Heights the window system reports.
Heights == {0, 1}

\* Sizes the window system reports in Resized / ScaleFactorChanged.
Sizes == { Size(w, h) : w \in 0..MaxWidth, h \in Heights }

\* wgpu::SurfaceError, and the outcome of one State::render call.
SurfaceErrors == {"Lost", "OutOfMemory", "Outdated", "Timeout"}
RenderResults == {"Ok"} \cup SurfaceErrors

\* Durations of one refresh_all(), in tenths of a second.
RefreshTimes == {0, 1}

\* Option<Instant>
None == <<>>
Some(t) == <<t>>

(***************************************************************************)
(* State of the program: the fields of State (src/window.rs) and of        *)
(* Application (src/application.rs), the event loop's control flow, and    *)
(* what the window system and the surface hold.                            *)
(***************************************************************************)
VARIABLES
    now,               \* Instant::now(), tenths of a second since start
    last_updated,      \* State.last_updated : Option<Instant>
    size,              \* State.size
    config,            \* State.config (width and height; the rest is fixed)
    surface,           \* the configuration the backend surface last received
    control_flow,      \* the event loop's ControlFlow
    loop_destroyed,    \* the loop has delivered LoopDestroyed and stopped
    redraw_requested,  \* a request_redraw() not yet answered by a redraw
    tick_requested,    \* history: MainEventsCleared made a pending request
    system,            \* Application.system: the retained snapshot
    search,            \* Application.search
    current_nav_item,  \* Application.current_nav_item
    pulls,             \* history: when State::update was called, last two
    fx                 \* history: what the last handler call did

vars == << now, last_updated, size, config, surface, control_flow,
           loop_destroyed, redraw_requested, tick_requested, system, search,
           current_nav_item, pulls, fx >>

NoSize == Size(0, 0)

\* What a handler finds when it is called.
Entry ==
    [ now |-> now, last_updated |-> last_updated,
      control_flow |-> control_flow, size |-> size, config |-> config,
      system |-> system, search |-> search ]

\* The record kept in fx: the event handled, its size argument, the state
\* at entry, whether State::update ran, the number of State::render calls,
\* the result of the last one and the table body it presented, the number
\* of surface.configure calls, whether request_redraw was called, the egui
\* visuals it applied, the snapshot State::update loaded, and whether the
\* redraw handled had been requested by MainEventsCleared.
Effects(ev, arg, pulled, renders, result, rows, configures, redraw) ==
    [ event |-> ev, arg |-> arg, entry |-> Entry, pulled |-> pulled,
      renders |-> renders, result |-> result, rows |-> rows,
      configures |-> configures, redraw |-> redraw, visuals |-> "None",
      loaded |-> None, tick |-> FALSE ]

NoEffects(ev) == Effects(ev, NoSize, FALSE, 0, "None", <<>>, 0, FALSE)

\* The call times of the last two State::update calls, after one at t.
Pulled(t) == IF pulls = <<>> THEN <<t>> ELSE <<pulls[Len(pulls)], t>>

(***************************************************************************)
(* Helpers of the handlers.                                                *)
(***************************************************************************)
\* set_wait_timeout overwriting an Exit already set.
set_wait_timeout_overwrites(cf) == "WaitUntil"

\* control_flow.set_wait_timeout(1 s) on the reference the loop hands to
\* the closure.  winit keeps ControlFlow::Exit once set: after Exit the
\* closure is handed a scratch value and its writes are dropped.
set_wait_timeout(cf) == IF cf = "Exit" THEN "Exit" ELSE "WaitUntil"

\* refresh_due with the threshold dropped: every redraw refreshes.
refresh_due_always(lu, t) == TRUE

\* refresh_due with a strict threshold.
refresh_due_strict(lu, t) ==
    IF lu # None THEN t - lu[1] > OneSecond ELSE TRUE

\* The refresh decision of the RedrawRequested arm: no refresh yet, or the
\* last one is at least one second old.
refresh_due(lu, t) ==
    IF lu # None THEN t - lu[1] >= OneSecond ELSE TRUE

\* The MainEventsCleared arm never asking for a redraw.
tick_due_never(lu, t) == FALSE

\* The MainEventsCleared arm asking for a redraw as soon as a refresh was
\* made, without the one-second threshold.
tick_due_early(lu, t) == lu # None

\* The MainEventsCleared arm deciding as the RedrawRequested arm does: a
\* redraw is asked for before the first refresh too.
tick_due_when_idle(lu, t) ==
    IF lu # None THEN t - lu[1] >= OneSecond ELSE TRUE

\* The redraw decision of the MainEventsCleared arm.
tick_due(lu, t) ==
    IF lu # None THEN t - lu[1] >= OneSecond ELSE FALSE

\* resize without the guard on degenerate sizes.
resize_unguarded(s, new_size) ==
    LET c == [s.config EXCEPT !.width = new_size.width,
                              !.height = new_size.height]
    IN  [ size |-> new_size, config |-> c, surface |-> c,
          configures |-> s.configures + 1 ]

\* resize recording the new size but leaving config.width as it was.
resize_stale_width(s, new_size) ==
    IF new_size.width > 0 /\ new_size.height > 0
    THEN LET c == [s.config EXCEPT !.height = new_size.height]
         IN  [ size |-> new_size, config |-> c, surface |-> c,
               configures |-> s.configures + 1 ]
    ELSE s

\* State::resize on s = [size, config, surface, configures].
resize(s, new_size) ==
    IF new_size.width > 0 /\ new_size.height > 0
    THEN LET c == [s.config EXCEPT !.width = new_size.width,
                                   !.height = new_size.height]
         IN  [ size |-> new_size, config |-> c, surface |-> c,
               configures |-> s.configures + 1 ]
    ELSE s

\* The geometry part of State, as resize takes it.
Geometry == [ size |-> size, config |-> config, surface |-> surface,
              configures |-> 0 ]

\* State::update reading the clock before refresh_all() instead of after.
update_stamp_first(snapshot, t) ==
    [ system |-> snapshot, last_updated |-> Some(now) ]

\* State::update, given the snapshot refresh_all() loads and the instant
\* read after it.
update(snapshot, t) == [ system |-> snapshot, last_updated |-> Some(t) ]

\* match_render with the Lost arm missing: Lost falls to the last arm.
match_render_lost_ignored(result, s, cf) ==
    CASE result = "OutOfMemory" ->
             [ geometry |-> s, control_flow |-> "Exit" ]
      [] OTHER ->
             [ geometry |-> s, control_flow |-> cf ]

\* match_render with the OutOfMemory arm missing.
match_render_oom_ignored(result, s, cf) ==
    CASE result = "Lost" ->
             [ geometry |-> resize(s, s.size), control_flow |-> cf ]
      [] OTHER ->
             [ geometry |-> s, control_flow |-> cf ]

\* match_render reconfiguring on every error but OutOfMemory.
match_render_reconfigure_all(result, s, cf) ==
    CASE result = "Ok" ->
             [ geometry |-> s, control_flow |-> cf ]
      [] result = "OutOfMemory" ->
             [ geometry |-> s, control_flow |-> "Exit" ]
      [] OTHER ->
             [ geometry |-> resize(s, s.size), control_flow |-> cf ]

\* The match on the result of state.render(), on the geometry s and the
\* control flow cf.
match_render(result, s, cf) ==
    CASE result = "Lost" ->
             [ geometry |-> resize(s, s.size), control_flow |-> cf ]
      [] result = "OutOfMemory" ->
             [ geometry |-> s, control_flow |-> "Exit" ]
      [] OTHER ->
             [ geometry |-> s, control_flow |-> cf ]

\* set_visuals_from_theme
set_visuals_from_theme(theme) ==
    IF theme = "Light" THEN "light" ELSE "dark"

\* Application::render on app = [system, search, current_nav_item]: the
\* search box takes the text the user's keystrokes leave in it (typed), the
\* side panel keeps the only NavItem, and the central panel renders the
\* table of the current snapshot.
application_render(app, typed) ==
    [ search |-> typed,
      current_nav_item |-> "Processes",
      rows |-> processes_view(app.system, typed) ]

\* State::render asking for the texture after the UI pass: the search box
\* has taken the keystrokes when the surface error is returned.
render_texture_last(result, app, typed) ==
    LET r == application_render(app, typed)
    IN  IF result = "Ok" THEN r ELSE [r EXCEPT !.rows = <<>>]

\* State::render on app = [system, search, current_nav_item]:
\* get_current_texture()? returns the surface error before anything else
\* runs; only a frame that got its texture reaches Application::render.
render(result, app, typed) ==
    IF result = "Ok"
    THEN application_render(app, typed)
    ELSE [ search |-> app.search,
           current_nav_item |-> app.current_nav_item,
           rows |-> <<>> ]

(***************************************************************************)
(* Init: the state State::new and run leave before the first event.  The   *)
(* window is created with a positive size and System::new_all() has loaded *)
(* a first snapshot.  The egui visuals live in the platform's context and  *)
(* are recorded only as an effect of the handler that sets them.           *)
(***************************************************************************)
Init ==
    /\ now = 0
    /\ last_updated = None
    /\ size \in { z \in Sizes : z.width > 0 /\ z.height > 0 }
    /\ config = [width |-> size.width, height |-> size.height]
    /\ surface = config
    /\ control_flow = "Poll"
    /\ loop_destroyed = FALSE
    /\ redraw_requested = FALSE
    /\ tick_requested = FALSE
    /\ system \in LoopSnapshots
    /\ search = <<>>
    /\ current_nav_item = "Processes"
    /\ pulls = <<>>
    /\ fx = NoEffects("None")

(***************************************************************************)
(* The event-loop closure, one action per arm of `match event`.  Every     *)
(* call first hands the event to the platform and sets the wait timeout.   *)
(* The closure tests no shutdown flag: the loop keeps calling it after     *)
(* Exit was set, until it has delivered LoopDestroyed.                     *)
(***************************************************************************)
\* WindowEvent::CloseRequested
CloseRequested ==
    /\ ~loop_destroyed
    /\ control_flow' = "Exit"
    /\ fx' = NoEffects("CloseRequested")
    /\ UNCHANGED << now, last_updated, size, config, surface, loop_destroyed,
                    redraw_requested, system, search,
                    current_nav_item, pulls, tick_requested >>

\* The KeyboardInput arm matching Escape without testing the key state: a
\* release of Escape leaves the loop too.
KeyboardInput_any_state(state, virtual_keycode) ==
    /\ ~loop_destroyed
    /\ IF virtual_keycode = "Escape"
       THEN /\ control_flow' = "Exit"
            /\ fx' = NoEffects(IF state = "Pressed" THEN "EscapePressed"
                               ELSE "KeyboardInput")
            /\ UNCHANGED redraw_requested
       ELSE /\ control_flow' = set_wait_timeout(control_flow)
            /\ redraw_requested' = TRUE
            /\ fx' = [NoEffects("KeyboardInput") EXCEPT !.redraw = TRUE]
    /\ UNCHANGED << now, last_updated, size, config, surface, loop_destroyed,
                    system, search, current_nav_item, pulls, tick_requested >>

\* WindowEvent::KeyboardInput: Escape pressed leaves the loop; any other
\* key event falls to the catch-all arm.
KeyboardInput(state, virtual_keycode) ==
    /\ ~loop_destroyed
    /\ IF state = "Pressed" /\ virtual_keycode = "Escape"
       THEN /\ control_flow' = "Exit"
            /\ fx' = NoEffects("EscapePressed")
            /\ UNCHANGED redraw_requested
       ELSE /\ control_flow' = set_wait_timeout(control_flow)
            /\ redraw_requested' = TRUE
            /\ fx' = [NoEffects("KeyboardInput") EXCEPT !.redraw = TRUE]
    /\ UNCHANGED << now, last_updated, size, config, surface, loop_destroyed,
                    system, search, current_nav_item, pulls, tick_requested >>

\* WindowEvent::Resized(physical_size)
Resized(physical_size) ==
    /\ ~loop_destroyed
    /\ LET s == resize(Geometry, physical_size)
       IN  /\ size' = s.size
           /\ config' = s.config
           /\ surface' = s.surface
           /\ fx' = [NoEffects("Resized") EXCEPT !.arg = physical_size,
                                                 !.configures = s.configures]
    /\ control_flow' = set_wait_timeout(control_flow)
    /\ UNCHANGED << now, last_updated, loop_destroyed, redraw_requested,
                    system, search, current_nav_item, pulls, tick_requested >>

\* The ScaleFactorChanged arm storing the new size without State::resize.
ScaleFactorChanged_unguarded(new_inner_size) ==
    /\ ~loop_destroyed
    /\ LET s == resize_unguarded(Geometry, new_inner_size)
       IN  /\ size' = s.size
           /\ config' = s.config
           /\ surface' = s.surface
           /\ fx' = [NoEffects("ScaleFactorChanged")
                        EXCEPT !.arg = new_inner_size,
                               !.configures = s.configures]
    /\ control_flow' = set_wait_timeout(control_flow)
    /\ UNCHANGED << now, last_updated, loop_destroyed, redraw_requested,
                    system, search, current_nav_item, pulls, tick_requested >>

\* WindowEvent::ScaleFactorChanged { new_inner_size, .. }
ScaleFactorChanged(new_inner_size) ==
    /\ ~loop_destroyed
    /\ LET s == resize(Geometry, new_inner_size)
       IN  /\ size' = s.size
           /\ config' = s.config
           /\ surface' = s.surface
           /\ fx' = [NoEffects("ScaleFactorChanged")
                        EXCEPT !.arg = new_inner_size,
                               !.configures = s.configures]
    /\ control_flow' = set_wait_timeout(control_flow)
    /\ UNCHANGED << now, last_updated, loop_destroyed, redraw_requested,
                    system, search, current_nav_item, pulls, tick_requested >>

\* WindowEvent::ThemeChanged(theme)
ThemeChanged(theme) ==
    /\ ~loop_destroyed
    /\ control_flow' = set_wait_timeout(control_flow)
    /\ fx' = [NoEffects("ThemeChanged")
                 EXCEPT !.visuals = set_visuals_from_theme(theme)]
    /\ UNCHANGED << now, last_updated, size, config, surface, loop_destroyed,
                    redraw_requested, system, search, current_nav_item,
                    pulls, tick_requested >>

\* The catch-all arm left empty: the event is handled, nothing is requested.
OtherWindowEvent_silent ==
    /\ ~loop_destroyed
    /\ control_flow' = set_wait_timeout(control_flow)
    /\ fx' = NoEffects("OtherWindowEvent")
    /\ UNCHANGED << now, last_updated, size, config, surface, loop_destroyed,
                    redraw_requested, system, search, current_nav_item,
                    pulls, tick_requested >>

\* Any other WindowEvent of the window (cursor, focus, mouse, ...): the
\* catch-all arm.
OtherWindowEvent ==
    /\ ~loop_destroyed
    /\ redraw_requested' = TRUE
    /\ control_flow' = set_wait_timeout(control_flow)
    /\ fx' = [NoEffects("OtherWindowEvent") EXCEPT !.redraw = TRUE]
    /\ UNCHANGED << now, last_updated, size, config, surface, loop_destroyed,
                    system, search, current_nav_item, pulls, tick_requested >>

\* The RedrawRequested arm rendering before the refresh decision: the frame
\* is computed from the snapshot found at entry.
RedrawRequested_render_first(result, snapshot, d, typed) ==
    /\ ~loop_destroyed
    /\ LET due == refresh_due(last_updated, now)
           upd == IF due THEN update(snapshot, now + d)
                  ELSE [ system |-> system, last_updated |-> last_updated ]
           app == render(result,
                         [ system |-> system, search |-> search,
                           current_nav_item |-> current_nav_item ], typed)
           out == match_render(result, Geometry,
                               set_wait_timeout(control_flow))
       IN  /\ IF due THEN now + d <= MaxTime
                  ELSE snapshot = system /\ d = 0
           /\ now' = IF due THEN now + d ELSE now
           /\ system' = upd.system
           /\ last_updated' = upd.last_updated
           /\ pulls' = IF due THEN Pulled(now) ELSE pulls
           /\ search' = app.search
           /\ current_nav_item' = app.current_nav_item
           /\ size' = out.geometry.size
           /\ config' = out.geometry.config
           /\ surface' = out.geometry.surface
           /\ control_flow' = out.control_flow
           /\ fx' = [Effects("RedrawRequested",
                             IF result = "Lost" THEN size ELSE NoSize,
                             due, 1, result, app.rows,
                             out.geometry.configures, FALSE)
                         EXCEPT !.loaded = IF due THEN Some(snapshot)
                                           ELSE None,
                                !.tick = tick_requested]
    /\ redraw_requested' = FALSE
    /\ tick_requested' = FALSE
    /\ UNCHANGED loop_destroyed

\* Event::RedrawRequested for the window: the refresh decision, then one
\* State::render call and the match on its result.  get_current_texture is
\* the only source of a SurfaceError, so a failed render has not reached
\* Application::render.  refresh_all() takes d tenths of a second.
RedrawRequested(result, snapshot, d, typed) ==
    /\ ~loop_destroyed
    /\ LET due == refresh_due(last_updated, now)
           upd == IF due THEN update(snapshot, now + d)
                  ELSE [ system |-> system, last_updated |-> last_updated ]
           app == render(result,
                         [ system |-> upd.system, search |-> search,
                           current_nav_item |-> current_nav_item ], typed)
           out == match_render(result, Geometry,
                               set_wait_timeout(control_flow))
       IN  /\ IF due THEN now + d <= MaxTime
                  ELSE snapshot = system /\ d = 0
           /\ now' = IF due THEN now + d ELSE now
           /\ system' = upd.system
           /\ last_updated' = upd.last_updated
           /\ pulls' = IF due THEN Pulled(now) ELSE pulls
           /\ search' = app.search
           /\ current_nav_item' = app.current_nav_item
           /\ size' = out.geometry.size
           /\ config' = out.geometry.config
           /\ surface' = out.geometry.surface
           /\ control_flow' = out.control_flow
           /\ fx' = [Effects("RedrawRequested",
                             IF result = "Lost" THEN size ELSE NoSize,
                             due, 1, result, app.rows,
                             out.geometry.configures, FALSE)
                         EXCEPT !.loaded = IF due THEN Some(snapshot)
                                           ELSE None,
                                !.tick = tick_requested]
    /\ redraw_requested' = FALSE
    /\ tick_requested' = FALSE
    /\ UNCHANGED loop_destroyed

\* Event::MainEventsCleared
MainEventsCleared ==
    /\ ~loop_destroyed
    /\ IF tick_due(last_updated, now)
       THEN /\ redraw_requested' = TRUE
            /\ tick_requested' = TRUE
            /\ fx' = [NoEffects("MainEventsCleared") EXCEPT !.redraw = TRUE]
       ELSE /\ UNCHANGED << redraw_requested, tick_requested >>
            /\ fx' = NoEffects("MainEventsCleared")
    /\ control_flow' = set_wait_timeout(control_flow)
    /\ UNCHANGED << now, last_updated, size, config, surface, loop_destroyed,
                    system, search, current_nav_item, pulls >>

\* Every other event (NewEvents, UserEvent, RedrawEventsCleared, events of
\* another window id, ...): the `_ => {}` arm.
IgnoredEvent ==
    /\ ~loop_destroyed
    /\ control_flow' = set_wait_timeout(control_flow)
    /\ fx' = NoEffects("Ignored")
    /\ UNCHANGED << now, last_updated, size, config, surface, loop_destroyed,
                    redraw_requested, system, search,
                    current_nav_item, pulls, tick_requested >>

\* Event::LoopDestroyed: the last event of a loop whose control flow is
\* Exit; it too takes the `_ => {}` arm.
LoopDestroyed ==
    /\ ~loop_destroyed
    /\ control_flow = "Exit"
    /\ loop_destroyed' = TRUE
    /\ fx' = NoEffects("LoopDestroyed")
    /\ UNCHANGED << now, last_updated, size, config, surface, control_flow,
                    redraw_requested, system, search,
                    current_nav_item, pulls, tick_requested >>

\* The clock advances by a tenth of a second between two handler calls.
Tick ==
    /\ ~loop_destroyed
    /\ now < MaxTime
    /\ now' = now + 1
    /\ fx' = NoEffects("Tick")
    /\ UNCHANGED << last_updated, size, config, surface, control_flow,
                    loop_destroyed, redraw_requested, system, search,
                    current_nav_item, pulls, tick_requested >>

Next ==
    \/ CloseRequested
    \/ \E st \in {"Pressed", "Released"}, key \in {"Escape", "Other"} :
          KeyboardInput(st, key)
    \/ \E z \in Sizes : Resized(z)
    \/ \E z \in Sizes : ScaleFactorChanged(z)
    \/ \E theme \in {"Light", "Dark"} : ThemeChanged(theme)
    \/ OtherWindowEvent
    \/ \E result \in RenderResults, snapshot \in LoopSnapshots,
          d \in RefreshTimes, typed \in LoopQueries :
          RedrawRequested(result, snapshot, d, typed)
    \/ MainEventsCleared
    \/ IgnoredEvent
    \/ LoopDestroyed
    \/ Tick

Spec == Init /\ [][Next]_vars

(***************************************************************************)
(* The table runs: one frame rendered (no refresh due, no keystroke) for   *)
(* any retained snapshot of at most MaxProcs processes and any search text *)
(* of at most MaxQueryLen characters.                                      *)
(***************************************************************************)
InitTable ==
    /\ now = 0
    /\ last_updated = Some(0)
    /\ size = Size(1, 1)
    /\ config = [width |-> size.width, height |-> size.height]
    /\ surface = config
    /\ control_flow = "WaitUntil"
    /\ loop_destroyed = FALSE
    /\ redraw_requested = TRUE
    /\ tick_requested = FALSE
    /\ system \in Snapshots(MaxProcs)
    /\ search \in Queries(MaxQueryLen)
    /\ current_nav_item = "Processes"
    /\ pulls = <<0>>
    /\ fx = NoEffects("None")

NextTable == RedrawRequested("Ok", system, 0, search)

SpecTable == InitTable /\ [][NextTable]_vars

(***************************************************************************)
(* The unattended runs: the window system draws the new window once, and   *)
(* from then on no user input and no window event arrives.  The loop waits *)
(* with the one-second timeout set at the top of the closure, so it keeps  *)
(* iterating: each iteration delivers NewEvents (the `_ => {}` arm) and    *)
(* MainEventsCleared, and a RedrawRequested if request_redraw was called.  *)
(* Instants are only ever subtracted, so the origin of the clock can be    *)
(* moved to the last refresh; this keeps the clock of an endless run       *)
(* within 0..MaxTime.                                                      *)
(***************************************************************************)
\* The first frame of the new window.
FirstFrame ==
    /\ last_updated = None
    /\ \E result \in RenderResults, snapshot \in LoopSnapshots,
          d \in RefreshTimes :
          RedrawRequested(result, snapshot, d, search)

\* The RedrawRequested that answers request_redraw().
RequestedRedraw ==
    /\ redraw_requested
    /\ \E result \in RenderResults, snapshot \in LoopSnapshots,
          d \in RefreshTimes :
          RedrawRequested(result, snapshot, d, search)

\* The origin of the clock moves to the last refresh.
Rebase ==
    /\ ~loop_destroyed
    /\ last_updated # None
    /\ last_updated[1] > 0
    /\ LET t == last_updated[1]
       IN  /\ now' = now - t
           /\ last_updated' = Some(0)
           /\ pulls' = [i \in 1..Len(pulls) |-> pulls[i] - t]
           /\ fx' = [fx EXCEPT
                        !.entry.now = @ - t,
                        !.entry.last_updated =
                            IF @ = None THEN None ELSE Some(@[1] - t)]
    /\ UNCHANGED << size, config, surface, control_flow, loop_destroyed,
                    redraw_requested, tick_requested, system, search,
                    current_nav_item >>

NextLive ==
    \/ FirstFrame
    \/ RequestedRedraw
    \/ MainEventsCleared
    \/ IgnoredEvent
    \/ LoopDestroyed
    \/ Tick
    \/ Rebase

\* Time passes, the wait timeout ends every wait so that MainEventsCleared
\* keeps being delivered, and the window system answers request_redraw().
FairLive ==
    /\ WF_vars(Tick)
    /\ WF_vars(Rebase)
    /\ WF_vars(MainEventsCleared)
    /\ WF_vars(RequestedRedraw)

SpecLive == Init /\ [][NextLive]_vars /\ FairLive

(***************************************************************************)
(* Properties.                                                             *)
(***************************************************************************)
Rendered == fx.event = "RedrawRequested" /\ fx.result = "Ok"

\* C1: any two consecutive calls of State::update are at least one second
\* apart.
C1_PullsOneSecondApart ==
    Len(pulls) = 2 => pulls[2] - pulls[1] >= OneSecond

\* Two pulls exactly one second apart, the second by the last handler.
C1_Witness ==
    /\ fx.pulled
    /\ Len(pulls) = 2
    /\ pulls[2] - pulls[1] = OneSecond

\* C2: a processed redraw pulls and sets last_updated to the current time
\* iff last_updated was None or at least one second old; otherwise it does
\* not pull and last_updated keeps its value.
C2_RefreshDecision ==
    fx.event = "RedrawRequested" =>
        LET t   == fx.entry.last_updated
            due == t = None \/ fx.entry.now - t[1] >= OneSecond
        IN  /\ fx.pulled <=> due
            /\ due => last_updated = Some(now)
            /\ ~due => last_updated = t

\* Scenario D: the pull of the redraw at 1.1 s, after the pull at 0.
C2_Witness ==
    /\ fx.event = "RedrawRequested"
    /\ fx.pulled
    /\ fx.entry.last_updated = Some(0)
    /\ fx.entry.now = 11
    /\ pulls = <<0, 11>>

\* C3: Resized with a zero width or height leaves config, size and the
\* surface alone; Resized with positive width and height sets config and
\* size to them and configures the surface with the new config.
C3_ResizeGuard ==
    fx.event = "Resized" =>
        IF fx.arg.width = 0 \/ fx.arg.height = 0
        THEN /\ config = fx.entry.config
             /\ size = fx.entry.size
             /\ fx.configures = 0
        ELSE /\ config.width = fx.arg.width
             /\ config.height = fx.arg.height
             /\ size = fx.arg
             /\ fx.configures = 1
             /\ surface = config

\* A Resized(0, 1) handled while the window is 2 wide.
C3_Witness ==
    /\ fx.event = "Resized"
    /\ fx.arg = Size(0, 1)
    /\ config.width = 2
    /\ fx.configures = 0

\* A record matches a query: its PID's decimal text contains the query, or
\* its lowercased name contains the lowercased query.
Hit(p, q) ==
    \/ contains(to_string(p.pid), q)
    \/ contains(to_lowercase(p.name), to_lowercase(q))

\* The rows of the presented frame that show record p.
RowsOf(p) ==
    { i \in 1..Len(fx.rows) :
        fx.rows[i].pid = to_string(p.pid) /\ fx.rows[i].name = p.name }

\* The place in the snapshot of the record that row i shows.
Place(i) ==
    CHOOSE k \in 1..Len(system) : to_string(system[k].pid) = fx.rows[i].pid

\* C4: the rows of a frame are exactly the records of the snapshot that
\* match the search text, each once and none added; for the empty text all
\* records are rendered, and no match gives an empty body of a frame that
\* rendered.
C4_RowsAreTheMatches ==
    Rendered =>
        /\ \A k \in 1..Len(system) :
              Cardinality(RowsOf(system[k])) =
                  IF Hit(system[k], search) THEN 1 ELSE 0
        /\ \A i \in 1..Len(fx.rows) :
              \E k \in 1..Len(system) : i \in RowsOf(system[k])
        /\ search = <<>> => Len(fx.rows) = Len(system)

\* Scenario A: {bash 10, Chrome 20} searched for "ch" shows Chrome alone.
C4_Witness ==
    /\ Rendered
    /\ search = <<99, 104>>
    /\ Len(system) = 2
    /\ system[1].pid = 10
    /\ system[2].pid = 20
    /\ Len(fx.rows) = 1
    /\ fx.rows[1].pid = <<50, 48>>

\* C5: the rows are ascending by lowercased name, and rows with equal
\* lowercased names keep the order their records have in the snapshot.
C5_SortedStable ==
    Rendered =>
        \A i, j \in 1..Len(fx.rows) :
            i < j =>
                LET a == to_lowercase(fx.rows[i].name)
                    b == to_lowercase(fx.rows[j].name)
                IN  /\ cmp(a, b) # "Greater"
                    /\ a = b => Place(i) < Place(j)

\* Scenario C: "init" before "Init" in the snapshot, and so in the frame,
\* against the byte order of the two names.
C5_Witness ==
    /\ Rendered
    /\ Len(fx.rows) = 2
    /\ fx.rows[1].name = <<105, 110, 105, 116>>
    /\ fx.rows[2].name = <<73, 110, 105, 116>>

\* C6: every row shows the memory as bytes / 1,000,000 (truncated) with
\* one decimal digit and " MB", the written bytes followed by "/s" and the
\* PID in decimal.
C6_CellTexts ==
    Rendered =>
        \A i \in 1..Len(fx.rows) :
            LET p == system[Place(i)]
            IN  /\ fx.rows[i].pid = to_string(p.pid)
                /\ fx.rows[i].mem =
                       to_string(p.memory \div 1000000)
                           \o <<46, 48, 32, 77, 66>>
                /\ fx.rows[i].disk = to_string(p.written_bytes) \o <<47, 115>>

\* The last handler call was made after shutdown had been initiated.
AfterExit == fx.entry.control_flow = "Exit"

\* The last handler call initiated shutdown on a close request or Escape.
Closing == fx.event \in {"CloseRequested", "EscapePressed"}

\* C7 as stated: CloseRequested or an Escape press sets the control flow to
\* Exit, and no event processed after Exit returns it to waiting, pulls a
\* snapshot, renders a frame or changes config.
C7_ShutdownSilencesHandlers ==
    /\ Closing => control_flow = "Exit"
    /\ AfterExit =>
          /\ control_flow = "Exit"
          /\ ~fx.pulled
          /\ fx.renders = 0
          /\ config = fx.entry.config

\* C7 amended: CloseRequested or an Escape press sets the control flow to
\* Exit, and no event processed after Exit returns it to waiting.
C7_ShutdownIsTerminal ==
    /\ Closing => control_flow = "Exit"
    /\ AfterExit => control_flow = "Exit"

\* A redraw handled after shutdown was initiated: it pulled and rendered,
\* and the control flow is still Exit.
C7_Witness ==
    /\ AfterExit
    /\ fx.event = "RedrawRequested"
    /\ fx.pulled
    /\ fx.result = "Ok"
    /\ control_flow = "Exit"

\* C8: a render failing with OutOfMemory sets the control flow to Exit;
\* render is not called again and the surface is not configured.
C8_OutOfMemoryExits ==
    fx.result = "OutOfMemory" =>
        /\ control_flow = "Exit"
        /\ fx.renders = 1
        /\ fx.configures = 0
        /\ config = fx.entry.config
        /\ size = fx.entry.size

\* An OutOfMemory frame of a loop that was waiting.
C8_Witness ==
    /\ fx.result = "OutOfMemory"
    /\ fx.entry.control_flow = "WaitUntil"
    /\ control_flow = "Exit"

\* C9: a render failing with Lost configures the surface once with the
\* config in force, whose width and height keep their values, and does not
\* initiate shutdown.
C9_LostReconfigures ==
    fx.result = "Lost" =>
        /\ fx.configures = 1
        /\ surface = config
        /\ config = fx.entry.config
        /\ size = fx.entry.size
        /\ fx.renders = 1
        /\ control_flow = "Exit" => AfterExit

\* A Lost frame of a waiting loop whose window was resized to 2 x 1.
C9_Witness ==
    /\ fx.result = "Lost"
    /\ fx.configures = 1
    /\ fx.arg = Size(2, 1)
    /\ control_flow = "WaitUntil"

\* C10: a render failing with Outdated or Timeout changes neither config
\* nor size, does not configure the surface and does not initiate shutdown;
\* the loop is not stopped by it, and every redraw processed calls render.
C10_OutdatedTimeoutIgnored ==
    /\ fx.result \in {"Outdated", "Timeout"} =>
          /\ config = fx.entry.config
          /\ size = fx.entry.size
          /\ fx.configures = 0
          /\ fx.renders = 1
          /\ control_flow = "Exit" => AfterExit
          /\ control_flow # "Exit" => ~loop_destroyed
    /\ fx.event = "RedrawRequested" => fx.renders = 1

\* A Timeout frame of a waiting loop.
C10_Witness ==
    /\ fx.result = "Timeout"
    /\ fx.entry.control_flow = "WaitUntil"
    /\ control_flow = "WaitUntil"
    /\ ~loop_destroyed

\* The events that are handled by an arm of their own in `match event`
\* inside the window-event match; Tick and None are no events.
OwnArm ==
    { "CloseRequested", "EscapePressed", "Resized", "ScaleFactorChanged",
      "ThemeChanged" }

Delivered == fx.event \notin {"None", "Tick"}

CatchAll == fx.event \in {"KeyboardInput", "OtherWindowEvent"}

\* C11 as stated: every event delivered to the loop other than close, Escape
\* press, resize, scale-factor change and theme change has a redraw
\* requested by its handler.
C11_EveryOtherEventRequests ==
    (Delivered /\ fx.event \notin OwnArm) => fx.redraw

\* C11: every window event of the application window other than close,
\* Escape press, resize, scale-factor change and theme change has a redraw
\* requested by its handler, and the request is pending when it returns.  Of
\* the events that are no window events, RedrawRequested and the events of
\* the `_ => {}` arm request none, and MainEventsCleared requests one exactly
\* when a refresh was made and is at least one second old.
C11_WindowEventsRequest ==
    /\ CatchAll => fx.redraw /\ redraw_requested
    /\ fx.event \in OwnArm \cup {"RedrawRequested", "Ignored", "LoopDestroyed"}
          => ~fx.redraw
    /\ fx.event = "MainEventsCleared" =>
          (fx.redraw <=> /\ fx.entry.last_updated # None
                         /\ fx.entry.now - fx.entry.last_updated[1]
                               >= OneSecond)
    /\ fx.redraw => redraw_requested

\* A mouse or focus event handled while the scheduler is Idle.
C11_Witness ==
    /\ fx.event = "OtherWindowEvent"
    /\ fx.redraw
    /\ redraw_requested
    /\ last_updated = None

Tracking == last_updated # None

Stopped == control_flow = "Exit"

\* A refresh that followed an earlier one.
FurtherPull ==
    /\ fx.event = "RedrawRequested"
    /\ fx.pulled
    /\ Len(pulls) = 2

\* C12: in an unattended run, MainEventsCleared requests a redraw whenever
\* the last refresh is at least one second old, and from every state in
\* which a refresh was made a further refresh follows, unless the control
\* flow is set to Exit: refreshes recur for as long as the loop runs.
C12_TickDrivesPulls ==
    /\ [](fx.event = "MainEventsCleared" /\ fx.entry.last_updated # None
            /\ fx.entry.now - fx.entry.last_updated[1] >= OneSecond
          => fx.redraw /\ redraw_requested)
    /\ (Tracking ~> (FurtherPull \/ Stopped))

\* A refresh answering the tick's request, one second after the last, made
\* by a loop that is still running.
C12_Witness ==
    /\ FurtherPull
    /\ fx.entry.now - fx.entry.last_updated[1] = OneSecond
    /\ ~Stopped

Failed == fx.event = "RedrawRequested" /\ fx.result \in SurfaceErrors

\* The snapshot retained when the handler's State::render call began: the
\* one State::update loaded if it ran, else the one found at entry.
SnapshotAtRender == IF fx.pulled THEN fx.loaded[1] ELSE fx.entry.system

\* C13: after a frame that failed with a surface error, the search text,
\* the nav selection and the snapshot are what they were when the render
\* call began, and no table was presented.
C13_FailedFrameKeepsState ==
    Failed =>
        /\ search = fx.entry.search
        /\ current_nav_item = "Processes"
        /\ system = SnapshotAtRender
        /\ fx.rows = <<>>

\* A frame that timed out after its refresh replaced the snapshot, with a
\* search text retained.
C13_Witness ==
    /\ Failed
    /\ fx.result = "Timeout"
    /\ fx.pulled
    /\ system # fx.entry.system
    /\ search = <<99, 104>>

\* C14: last_updated is None exactly until State::update has been called;
\* a handler that does not call it leaves last_updated as it found it, and
\* only the RedrawRequested arm calls it, leaving the instant read after
\* refresh_all() returned.
C14_ClockSetOnlyByPull ==
    /\ last_updated = None <=> pulls = <<>>
    /\ ~fx.pulled => last_updated = fx.entry.last_updated
    /\ fx.pulled =>
          /\ fx.event = "RedrawRequested"
          /\ last_updated = Some(now)
          /\ pulls[Len(pulls)] = fx.entry.now
          /\ now >= fx.entry.now

\* The first refresh, which took a tenth of a second.
C14_Witness ==
    /\ fx.pulled
    /\ fx.entry.last_updated = None
    /\ now = fx.entry.now + 1
    /\ last_updated = Some(now)

\* C15: the table a rendered frame presents is the table of the snapshot
\* and the search text the application holds when the handler returns; when
\* the handler refreshed, that snapshot is the one the refresh loaded, not
\* the one it replaced.
C15_FrameShowsCommittedState ==
    Rendered =>
        /\ fx.rows = processes_view(system, search)
        /\ fx.pulled => system = fx.loaded[1]

\* A rendered frame whose refresh replaced the snapshot and whose search
\* box took keystrokes: it shows the one row of the new snapshot that
\* matches the new text.
C15_Witness ==
    /\ Rendered
    /\ fx.pulled
    /\ system # fx.entry.system
    /\ search # fx.entry.search
    /\ Len(fx.rows) = 1
    /\ fx.rows # processes_view(fx.entry.system, search)

ExitSet == control_flow = "Exit" /\ fx.entry.control_flow # "Exit"

\* C17: the control flow becomes Exit only in the handler of CloseRequested,
\* of an Escape key press, or of a redraw whose render failed with
\* OutOfMemory.
C17_OnlyThreeWaysToExit ==
    ExitSet =>
        \/ fx.event \in {"CloseRequested", "EscapePressed"}
        \/ fx.event = "RedrawRequested" /\ fx.result = "OutOfMemory"

\* An Escape press ends a loop that has refreshed and was waiting.
C17_Witness ==
    /\ ExitSet
    /\ fx.event = "EscapePressed"
    /\ fx.entry.control_flow = "WaitUntil"
    /\ last_updated # None

\* C18: config.width and config.height equal size.width and size.height
\* in every state, and are positive: the window was created with a positive
\* size and no resize, scale-factor change or Lost frame makes them zero.
C18_ConfigMatchesSize ==
    /\ config.width = size.width
    /\ config.height = size.height
    /\ config.width > 0
    /\ config.height > 0

\* A Lost frame of a window that had been widened to 2 x 1: the surface is
\* configured with that size again.
C18_Witness ==
    /\ fx.result = "Lost"
    /\ fx.entry.size = Size(2, 1)
    /\ size = Size(2, 1)
    /\ config = [width |-> 2, height |-> 1]
    /\ surface = config

\* C19: while a redraw requested by MainEventsCleared is pending, a refresh
\* was made and is at least one second old; the RedrawRequested handler
\* that answers such a request calls State::update.
C19_TickRedrawPulls ==
    /\ tick_requested =>
          /\ redraw_requested
          /\ last_updated # None
          /\ now - last_updated[1] >= OneSecond
    /\ fx.event = "RedrawRequested" /\ fx.tick => fx.pulled

\* The tick's request was answered two tenths of a second after it was due:
\* the frame was rendered after a refresh.
C19_Witness ==
    /\ Rendered
    /\ fx.tick
    /\ fx.pulled
    /\ fx.entry.now - fx.entry.last_updated[1] = OneSecond + 1

\* C20: MainEventsCleared handled while last_updated is None requests no
\* redraw, however long the loop has run, so no request of the tick is
\* pending before the first refresh: the redraw that makes the first
\* refresh was not requested by the tick.
C20_IdleTickIsSilent ==
    /\ fx.event = "MainEventsCleared" /\ fx.entry.last_updated = None
          => ~fx.redraw
    /\ last_updated = None => ~tick_requested
    /\ fx.pulled /\ fx.entry.last_updated = None
          => fx.event = "RedrawRequested" /\ ~fx.tick

\* MainEventsCleared handled more than a second after start, before any
\* refresh: nothing is requested.
C20_Witness ==
    /\ fx.event = "MainEventsCleared"
    /\ fx.entry.last_updated = None
    /\ fx.entry.now > OneSecond
    /\ ~fx.redraw
    /\ ~redraw_requested

====
